---- MODULE Spec2Model ----
(***************************************************************************)
(* A model of two cores of the search engine:                              *)
(*   - RankingRuleGraph::remove_edges_with_condition                       *)
(*     (milli/src/search/new/ranking_rule_graph/mod.rs)                    *)
(*   - WordsPrefixes::{new, threshold, max_prefix_length, execute}         *)
(*     (milli/src/update/words_prefixes.rs)                                *)
(***************************************************************************)
EXTENDS Integers, Sequences, FiniteSets, TLC

VARIABLES
    \* ---- RankingRuleGraph ----
    edges_store,         \* FixedSizeInterner<Option<Edge>>: edge handle -> Edge or NoEdge
    edges_of_node,       \* MappedInterner<SmallBitmap>: node -> set of edge handles
    built_store,         \* history: edges_store as it was when the graph was built
    removed,             \* history: conditions passed to remove_edges_with_condition
    \* ---- Index, as seen through the write transaction ----
    words_fst,           \* the set of indexed words (streamed in byte order)
    word_docids,         \* word -> set of document ids
    word_prefix_docids,  \* prefix -> set of document ids
    words_prefixes_fst,  \* the stored set of prefixes
    \* ---- WordsPrefixes ----
    threshold,           \* self.threshold, in hundredths (0.01 is 1)
    max_prefix_length,   \* self.max_prefix_length
    pc,                  \* position of the builder: new, again, or a stage of execute
    local,               \* the local variables of execute
    before,              \* history: the two written stores when execute was called
    runs,                \* history: number of execute calls started
    last_call            \* history: the last argument passed to each setter

graph_vars == <<edges_store, edges_of_node, built_store, removed>>
index_vars == <<words_fst, word_docids, word_prefix_docids, words_prefixes_fst>>
vars == <<edges_store, edges_of_node, built_store, removed,
          words_fst, word_docids, word_prefix_docids, words_prefixes_fst,
          threshold, max_prefix_length, pc, local, before, runs, last_call>>

(***************************************************************************)
(* Bounds of the model.                                                    *)
(***************************************************************************)
NumEdges == 3        \* slots of the edge table
MaxWords == 3        \* words in the words FST
MaxRuns == 2         \* execute calls in a row

Min(a, b) == IF a <= b THEN a ELSE b
Max(a, b) == IF a >= b THEN a ELSE b

(***************************************************************************)
(*                          RANKING RULE GRAPH                             *)
(***************************************************************************)
Nodes == 0 .. 2
EdgeIds == 0 .. (NumEdges - 1)
Conditions == {0, 1}     \* the handles of the condition interner
Costs == {0, 1}
\* Option<Interned<E>>: None, or Some of a condition handle.
NoCondition == <<>>
Some(condition) == <<condition>>
OptConditions == {NoCondition} \cup {Some(c) : c \in Conditions}
NoEdge == [live |-> FALSE]

\* struct Edge { source_node, dest_node, cost, condition }.  The query graph
\* is acyclic: an edge goes from a node to a later one.
Edge == [live : {TRUE}, source_node : Nodes, dest_node : Nodes,
         cost : Costs, condition : OptConditions]

DagEdge == {e \in Edge : e.source_node < e.dest_node}

\* The mutation of MatchesCondition that forgets the `let Some(condition)`
\* guard: a free edge is taken to match.
MatchesConditionOrFree(edge, condition_to_remove) ==
    edge.condition = NoCondition \/ edge.condition[1] = condition_to_remove

\* let Some(condition) = edge.condition else { continue };
\* if condition == condition_to_remove
MatchesCondition(edge, condition_to_remove) ==
    edge.condition # NoCondition /\ edge.condition[1] = condition_to_remove

\* The mutation of BitmapNode that clears the bit in the destination's bitmap.
BitmapNodeDest(edge) == edge.dest_node

\* let (source_node, _dest_node) = (edge.source_node, edge.dest_node);
\* the bitmap that is updated is the source node's.
BitmapNode(edge) == edge.source_node

\* SmallBitmap::remove
BitmapRemove(bitmap, x) == bitmap \ {x}

\* One iteration of the loop over edges_store.iter_mut(), for slot edge_id.
\* g is the pair [store, of_node] being updated in place.
RemoveStep(g, edge_id, condition_to_remove) ==
    LET edge_opt == g.store[edge_id] IN
    IF ~edge_opt.live THEN g
    ELSE IF ~MatchesCondition(edge_opt, condition_to_remove) THEN g
    ELSE LET node == BitmapNode(edge_opt) IN
         [store   |-> [g.store EXCEPT ![edge_id] = NoEdge],
          of_node |-> [g.of_node EXCEPT ![node] = BitmapRemove(@, edge_id)]]

\* The loop of remove_edges_with_condition, slots edge_id .. NumEdges-1 in
\* handle order.
RECURSIVE RemoveLoop(_, _, _)
RemoveLoop(g, edge_id, condition_to_remove) ==
    IF edge_id >= NumEdges THEN g
    ELSE RemoveLoop(RemoveStep(g, edge_id, condition_to_remove),
                    edge_id + 1, condition_to_remove)

\* The outgoing index that graph construction produces for a store.
OutgoingIndex(store) ==
    [n \in Nodes |-> {e \in EdgeIds : store[e].live /\ store[e].source_node = n}]

\* pub fn remove_edges_with_condition(&mut self, condition_to_remove)
remove_edges_with_condition(condition_to_remove) ==
    /\ pc = "graph"
    /\ LET g == RemoveLoop([store |-> edges_store, of_node |-> edges_of_node],
                           0, condition_to_remove)
       IN /\ edges_store' = g.store
          /\ edges_of_node' = g.of_node
    /\ removed' = removed \cup {condition_to_remove}
    /\ UNCHANGED <<built_store, index_vars, threshold, max_prefix_length,
                   pc, local, before, runs, last_call>>

(***************************************************************************)
(*                       BYTE STRINGS AND UTF-8                            *)
(*  A word is a sequence of bytes.  Bytes are numbered in their unsigned   *)
(*  order: ASCII bytes < continuation bytes < lead bytes.                  *)
(***************************************************************************)
AsciiBytes == {1, 2}          \* 'a', 'b'
ContinuationBytes == {3}      \* 0x80 ..= 0xBF
LeadBytes == {4}              \* the lead byte of a two-byte character

\* Lexicographic order on byte strings: the order of the keys of an FST and
\* of an LMDB database.
BytesLess(a, b) ==
    \E i \in 1 .. Len(b) :
        /\ i - 1 <= Len(a)
        /\ \A j \in 1 .. (i - 1) : a[j] = b[j]
        /\ (i = Len(a) + 1 \/ (i <= Len(a) /\ a[i] < b[i]))

MinBytes(S) == CHOOSE x \in S : \A y \in S \ {x} : BytesLess(x, y)

\* fst::Set::stream(): the keys of the set in byte order.
RECURSIVE Stream(_)
Stream(S) == IF S = {} THEN <<>>
             ELSE LET m == MinBytes(S) IN <<m>> \o Stream(S \ {m})

\* str::from_utf8(bytes).is_ok(), for the bytes at positions i .. Len(bytes).
RECURSIVE Utf8From(_, _)
Utf8From(bytes, i) ==
    IF i > Len(bytes) THEN TRUE
    ELSE IF bytes[i] \in AsciiBytes THEN Utf8From(bytes, i + 1)
    ELSE IF /\ bytes[i] \in LeadBytes
            /\ i + 1 <= Len(bytes)
            /\ bytes[i + 1] \in ContinuationBytes
         THEN Utf8From(bytes, i + 2)
    ELSE FALSE

\* let word = str::from_utf8(bytes)?;
IsUtf8(bytes) == Utf8From(bytes, 1)

\* str::is_char_boundary(index): 0 and len are boundaries, an index past the
\* end is not, and otherwise the byte at index must not be a continuation byte.
IsCharBoundary(word, index) ==
    IF index = 0 \/ index = Len(word) THEN TRUE
    ELSE IF index > Len(word) THEN FALSE
    ELSE word[index + 1] \notin ContinuationBytes

NoneStr == [some |-> FALSE, prefix |-> <<>>]

\* The mutation of StrGet that cuts at any byte offset within the word.
StrGetAnyOffset(word, n) ==
    IF n <= Len(word) THEN [some |-> TRUE, prefix |-> SubSeq(word, 1, n)]
    ELSE NoneStr

\* word.get(..n): the first n bytes, only when n is a character boundary.
StrGet(word, n) ==
    IF IsCharBoundary(word, n) THEN [some |-> TRUE, prefix |-> SubSeq(word, 1, n)]
    ELSE NoneStr

\* A key starts with the prefix (heed's prefix_iter compares raw bytes).
StartsWith(key, prefix) ==
    Len(prefix) <= Len(key) /\ SubSeq(key, 1, Len(prefix)) = prefix

(***************************************************************************)
(*                            WORDS PREFIXES                               *)
(***************************************************************************)
DefaultThreshold == 1          \* threshold: 0.01
DefaultMaxPrefixLength == 4    \* max_prefix_length: 4
ThresholdOne == 100            \* 1.0 in hundredths
MinPrefixLength == 1           \* clamp [1, 25]
MaxPrefixLength25 == 25        \* clamp [1, 25]

\* An f64, in hundredths, or NaN.
F64(v) == [nan |-> FALSE, v |-> v]
NaN == [nan |-> TRUE, v |-> 0]

\* f64::min and f64::max: when one argument is NaN the other is returned.
F64Min(a, b) == IF a.nan THEN b ELSE IF b.nan THEN a
                ELSE IF a.v <= b.v THEN a ELSE b
F64Max(a, b) == IF a.nan THEN b ELSE IF b.nan THEN a
                ELSE IF a.v >= b.v THEN a ELSE b

\* value.min(1.0).max(0.0)
ClampThreshold(value) == F64Max(F64Min(value, F64(ThresholdOne)), F64(0))

\* The mutation of ClampLength that forgets the lower bound.
ClampLengthUpperOnly(value) == Min(value, MaxPrefixLength25)

\* value.min(25).max(1)
ClampLength(value) == Max(Min(value, MaxPrefixLength25), MinPrefixLength)

\* (number_of_words as f64 * self.threshold) as usize: the cast truncates,
\* saturates at 0 and maps NaN to 0.
MinNumberOfWords(number_of_words, t) ==
    IF t.nan THEN 0
    ELSE Max(0, (number_of_words * t.v) \div ThresholdOne)

EmptyDb == [k \in {} |-> {}]

\* The mutation of ClearDatabase that leaves the database as it is.
ClearDatabaseNoop(db) == db

\* self.index.word_prefix_docids.clear(self.wtxn)
ClearDatabase(db) == EmptyDb

\* The mutation of ReachesMinCount that inserts on every word from the
\* min_number_of_words-th of a run on.
ReachesMinCountOrMore(current_prefix_count, min_number_of_words) ==
    current_prefix_count >= min_number_of_words

\* if current_prefix_count == min_number_of_words
ReachesMinCount(current_prefix_count, min_number_of_words) ==
    current_prefix_count = min_number_of_words

\* if current_prefix_count == 0 || prefix != current_prefix.as_str()
StartsNewRun(current_prefix_count, prefix, current_prefix) ==
    current_prefix_count = 0 \/ prefix # current_prefix

\* fst::SetBuilder::insert refuses a key that is not greater than the last.
OutOfOrder(builder, key) ==
    Len(builder) > 0 /\ ~BytesLess(builder[Len(builder)], key)

SeqToSet(s) == {s[i] : i \in 1 .. Len(s)}

\* No setter has been called: <<>> stands for "never", <<v>> for argument v.
NoCall == [threshold |-> <<>>, max_prefix_length |-> <<>>]

IdleLocal ==
    [min_number_of_words |-> 0, n |-> 0, pos |-> 0,
     current_prefix |-> <<>>, current_prefix_count |-> 0,
     builder |-> <<>>, prefix_fsts |-> <<>>, prefix_fst |-> {},
     docids_sorter |-> <<>>, docids_reader |-> <<>>,
     error |-> "None", stage |-> "None"]

\* An error returned by `?` at the given stage.
Failed(l, error, stage) == [l EXCEPT !.error = error, !.stage = stage]

\* pub fn threshold(&mut self, value: f64) -> &mut Self
Threshold(value) ==
    /\ pc = "new"
    /\ threshold' = ClampThreshold(value)
    /\ last_call' = [last_call EXCEPT !.threshold = <<value>>]
    /\ UNCHANGED <<graph_vars, index_vars, max_prefix_length, pc, local, before, runs>>

\* pub fn max_prefix_length(&mut self, value: usize) -> &mut Self
MaxPrefixLength(value) ==
    /\ pc = "new"
    /\ max_prefix_length' = ClampLength(value)
    /\ last_call' = [last_call EXCEPT !.max_prefix_length = <<value>>]
    /\ UNCHANGED <<graph_vars, index_vars, threshold, pc, local, before, runs>>

\* execute, line 69: clear the word prefix docids database.
ExecuteClear ==
    /\ pc \in {"new", "again"}
    /\ runs < MaxRuns
    /\ before' = [word_prefix_docids |-> word_prefix_docids,
                  words_prefixes_fst |-> words_prefixes_fst]
    /\ runs' = runs + 1
    /\ \/ /\ word_prefix_docids' = ClearDatabase(word_prefix_docids)
          /\ local' = IdleLocal
          /\ pc' = "words"
       \/ /\ UNCHANGED word_prefix_docids
          /\ local' = Failed(IdleLocal, "Io", "clear")
          /\ pc' = "failed"
    /\ UNCHANGED <<graph_vars, words_fst, word_docids, words_prefixes_fst,
                   threshold, max_prefix_length, last_call>>

\* The locals at the top of the pass for length n (lines 89-93).
StartPass(l, n) ==
    [l EXCEPT !.n = n, !.pos = 1, !.current_prefix = <<>>,
              !.current_prefix_count = 0, !.builder = <<>>]

\* execute, lines 71-86: read the words FST, compute the minimum number of
\* words, create the sorter and enter the loop over the lengths.
ExecuteWords ==
    /\ pc = "words"
    /\ \/ /\ local' = StartPass(
                 [local EXCEPT !.min_number_of_words =
                      MinNumberOfWords(Cardinality(words_fst), threshold)], 1)
          /\ pc' = IF 1 <= max_prefix_length THEN "scan" ELSE "merge"
       \/ /\ local' = Failed(local, "Io", "words")
          /\ pc' = "failed"
    /\ UNCHANGED <<graph_vars, index_vars, threshold, max_prefix_length, before, runs, last_call>>

\* The body of `while let Some(bytes) = stream.next()` for one word
\* (lines 94-116); l is the record of locals, the result the locals after it.
ScanWordBody(l, bytes) ==
    IF ~IsUtf8(bytes) THEN Failed(l, "Encoding", "scan")
    ELSE
    LET got == StrGet(bytes, l.n) IN
    IF ~got.some THEN [l EXCEPT !.pos = @ + 1]
    ELSE
    LET prefix == got.prefix
        fresh == StartsNewRun(l.current_prefix_count, prefix, l.current_prefix)
        current_prefix == IF fresh THEN prefix ELSE l.current_prefix
        count == (IF fresh THEN 0 ELSE l.current_prefix_count) + 1
        counted == [l EXCEPT !.pos = @ + 1,
                             !.current_prefix = current_prefix,
                             !.current_prefix_count = count]
    IN IF ~ReachesMinCount(count, l.min_number_of_words) THEN counted
       ELSE LET inserted == [counted EXCEPT !.builder = Append(@, prefix)]
            IN IF OutOfOrder(l.builder, prefix)
               THEN Failed(inserted, "Fst", "scan")
               ELSE inserted

ScanWord ==
    /\ pc = "scan"
    /\ local.pos <= Cardinality(words_fst)
    /\ local' = ScanWordBody(local, Stream(words_fst)[local.pos])
    /\ pc' = IF local'.error = "None" THEN "scan" ELSE "failed"
    /\ UNCHANGED <<graph_vars, index_vars, threshold, max_prefix_length, before, runs, last_call>>

\* The stream is exhausted: prefix_fsts.push(builder.into_set()) (line 120),
\* then the next length or the end of the loop.
EndPass ==
    /\ pc = "scan"
    /\ local.pos > Cardinality(words_fst)
    /\ LET pushed == [local EXCEPT !.prefix_fsts = Append(@, SeqToSet(local.builder))]
       IN IF local.n + 1 <= max_prefix_length
          THEN /\ local' = StartPass(pushed, local.n + 1)
               /\ pc' = "scan"
          ELSE /\ local' = pushed
               /\ pc' = "merge"
    /\ UNCHANGED <<graph_vars, index_vars, threshold, max_prefix_length, before, runs, last_call>>

\* op.union() over the per-length sets (lines 124-127).
UnionOfSets(prefix_fsts) == UNION SeqToSet(prefix_fsts)

MergePrefixFsts ==
    /\ pc = "merge"
    /\ local' = [local EXCEPT !.prefix_fst = UnionOfSets(local.prefix_fsts)]
    /\ pc' = "docids"
    /\ UNCHANGED <<graph_vars, index_vars, threshold, max_prefix_length, before, runs, last_call>>

\* db.prefix_iter(wtxn, prefix): the entries of the database whose key starts
\* with the prefix, in key order.
PrefixIter(db, prefix) ==
    LET keys == Stream({k \in DOMAIN db : StartsWith(k, prefix)})
    IN [i \in 1 .. Len(keys) |-> <<keys[i], db[keys[i]]>>]

\* The mutation of PrefixDocids that reads only the entry of the word equal
\* to the prefix (a get in place of a prefix_iter).
PrefixDocidsExactKey(db, prefix) ==
    IF prefix \in DOMAIN db THEN <<<<prefix, db[prefix]>>>> ELSE <<>>

\* for result in db.prefix_iter(self.wtxn, prefix)? { docids_sorter.insert(prefix, data)? }
\* the (prefix, data) pairs inserted for one prefix.
PrefixDocids(db, prefix) ==
    LET found == PrefixIter(db, prefix)
    IN [i \in 1 .. Len(found) |-> <<prefix, found[i][2]>>]

\* The loop over the prefix FST (lines 130-138): every pair inserted into the
\* sorter, in insertion order.
RECURSIVE SorterInserts(_, _)
SorterInserts(prefixes, db) ==
    IF prefixes = <<>> THEN <<>>
    ELSE PrefixDocids(db, Head(prefixes)) \o SorterInserts(Tail(prefixes), db)

\* word_docids_merge: the union of the bitmaps inserted under one key.
word_docids_merge(values) == UNION values

\* Sorter::write_into: one entry per key, in key order, the values inserted
\* under the key merged by the merge function.
SorterWriteInto(sorter) ==
    LET keys == Stream({sorter[i][1] : i \in 1 .. Len(sorter)})
    IN [k \in 1 .. Len(keys) |->
           <<keys[k],
             word_docids_merge({sorter[i][2] : i \in {j \in 1 .. Len(sorter) :
                                                       sorter[j][1] = keys[k]}})>>]

\* MDB_APPEND refuses a key that is not greater than the last key of the
\* database.
AppendRefused(db, key) == \E k \in DOMAIN db : ~BytesLess(k, key)

\* write_into_lmdb_database with WriteMethod::Append: append the entries in
\* order, stopping at the first refused one.
RECURSIVE LmdbAppendAll(_, _)
LmdbAppendAll(db, entries) ==
    IF entries = <<>> THEN [db |-> db, ok |-> TRUE]
    ELSE LET key == Head(entries)[1]
             val == Head(entries)[2]
         IN IF AppendRefused(db, key) THEN [db |-> db, ok |-> FALSE]
            ELSE LmdbAppendAll([k \in DOMAIN db \cup {key} |->
                                   IF k = key THEN val ELSE db[k]],
                               Tail(entries))

\* execute, lines 129-138: fill the sorter.
CollectDocids ==
    /\ pc = "docids"
    /\ \/ /\ local' = [local EXCEPT !.docids_sorter =
                           SorterInserts(Stream(local.prefix_fst), word_docids)]
          /\ pc' = "put"
       \/ /\ local' = Failed(local, "Io", "docids")
          /\ pc' = "failed"
    /\ UNCHANGED <<graph_vars, index_vars, threshold, max_prefix_length, before, runs, last_call>>

\* execute, line 141: self.index.put_words_prefixes_fst(self.wtxn, &prefix_fst)?
PutWordsPrefixesFst ==
    /\ pc = "put"
    /\ \/ /\ words_prefixes_fst' = local.prefix_fst
          /\ local' = local
          /\ pc' = "write"
       \/ /\ UNCHANGED words_prefixes_fst
          /\ local' = Failed(local, "Io", "put")
          /\ pc' = "failed"
    /\ UNCHANGED <<graph_vars, words_fst, word_docids, word_prefix_docids,
                   threshold, max_prefix_length, before, runs, last_call>>

\* execute, lines 143-148: write the sorter into a temporary file and read it back.
WriteSorter ==
    /\ pc = "write"
    /\ \/ /\ local' = [local EXCEPT !.docids_reader = SorterWriteInto(local.docids_sorter)]
          /\ pc' = "lmdb"
       \/ /\ local' = Failed(local, "Io", "write")
          /\ pc' = "failed"
    /\ UNCHANGED <<graph_vars, index_vars, threshold, max_prefix_length, before, runs, last_call>>

\* execute, lines 150-159: append the merged entries to word_prefix_docids.
WriteIntoLmdb ==
    /\ pc = "lmdb"
    /\ \/ LET res == LmdbAppendAll(word_prefix_docids, local.docids_reader)
          IN /\ word_prefix_docids' = res.db
             /\ local' = IF res.ok THEN IdleLocal ELSE Failed(local, "KeyExist", "lmdb")
             /\ pc' = IF res.ok THEN "done" ELSE "failed"
       \/ \E k \in 0 .. Len(local.docids_reader) :
             /\ word_prefix_docids' =
                    LmdbAppendAll(word_prefix_docids, SubSeq(local.docids_reader, 1, k)).db
             /\ local' = Failed(local, "Io", "lmdb")
             /\ pc' = "failed"
    /\ UNCHANGED <<graph_vars, words_fst, word_docids, words_prefixes_fst,
                   threshold, max_prefix_length, before, runs, last_call>>

\* The caller builds a new WordsPrefixes with the same settings on the same
\* index and transaction, to execute it again.
RunAgain ==
    /\ pc = "done"
    /\ runs < MaxRuns
    /\ pc' = "again"
    /\ UNCHANGED <<graph_vars, index_vars, threshold, max_prefix_length,
                   local, before, runs, last_call>>

Execute ==
    \/ ExecuteClear
    \/ ExecuteWords
    \/ ScanWord
    \/ EndPass
    \/ MergePrefixFsts
    \/ CollectDocids
    \/ PutWordsPrefixesFst
    \/ WriteSorter
    \/ WriteIntoLmdb

(***************************************************************************)
(*                           SPECIFICATIONS                                *)
(***************************************************************************)
\* The words the index may hold: a, aa, ab, a-u-umlaut, b, u-umlaut,
\* u-umlaut-a, and a truncated two-byte character (not UTF-8).
Dictionary == {<<1>>, <<1, 1>>, <<1, 2>>, <<1, 4, 3>>, <<2>>, <<4, 3>>,
               <<4, 3, 1>>, <<4>>}
DocSets == {{1}, {2}}
\* What the two written stores may hold when the builder is created.
OldStores ==
    {[word_prefix_docids |-> EmptyDb, words_prefixes_fst |-> {}],
     [word_prefix_docids |-> (<<1>> :> {1, 2}) @@ (<<4, 3, 4, 3>> :> {2}),
      words_prefixes_fst |-> {<<1>>, <<4, 3, 4, 3>>}]}

NoGraph ==
    /\ edges_store = [e \in EdgeIds |-> NoEdge]
    /\ edges_of_node = [n \in Nodes |-> {}]
    /\ built_store = [e \in EdgeIds |-> NoEdge]
    /\ removed = {}

\* WordsPrefixes::new
New ==
    /\ threshold = F64(DefaultThreshold)
    /\ max_prefix_length = DefaultMaxPrefixLength
    /\ pc = "new"
    /\ local = IdleLocal
    /\ runs = 0
    /\ last_call = NoCall

InitIndex(wordsets) ==
    /\ words_fst \in wordsets
    /\ word_docids \in [words_fst -> DocSets]
    /\ \E old \in OldStores :
          /\ word_prefix_docids = old.word_prefix_docids
          /\ words_prefixes_fst = old.words_prefixes_fst
          /\ before = old

\* ---- the prefix builder over every small index ----
ThresholdArgs == {F64(50), F64(67), F64(100)}
LengthArgs == {2, 3}

InitPrefix ==
    /\ NoGraph
    /\ InitIndex({W \in SUBSET Dictionary : Cardinality(W) <= MaxWords})
    /\ New

NextPrefix ==
    \/ \E value \in ThresholdArgs : Threshold(value)
    \/ \E value \in LengthArgs : MaxPrefixLength(value)
    \/ Execute
    \/ RunAgain

SpecPrefix == InitPrefix /\ [][NextPrefix]_vars

\* ---- the settings of the builder, over one index ----
AnyThresholdArgs == {F64(-50), F64(0), F64(1), F64(50), F64(100), F64(250), NaN}
AnyLengthArgs == {0, 1, 2, 25, 26, 1000}

InitBuilder ==
    /\ NoGraph
    /\ InitIndex({{<<1>>, <<1, 1>>, <<4, 3>>}})
    /\ New

NextBuilder ==
    \/ \E value \in AnyThresholdArgs : Threshold(value)
    \/ \E value \in AnyLengthArgs : MaxPrefixLength(value)
    \/ Execute
    \/ RunAgain

SpecBuilder == InitBuilder /\ [][NextBuilder]_vars

\* ---- the ranking rule graph ----
InitGraph ==
    /\ edges_store \in [EdgeIds -> DagEdge \cup {NoEdge}]
    /\ edges_of_node = OutgoingIndex(edges_store)
    /\ built_store = edges_store
    /\ removed = {}
    /\ words_fst = {}
    /\ word_docids = EmptyDb
    /\ word_prefix_docids = EmptyDb
    /\ words_prefixes_fst = {}
    /\ before = [word_prefix_docids |-> EmptyDb, words_prefixes_fst |-> {}]
    /\ threshold = F64(DefaultThreshold)
    /\ max_prefix_length = DefaultMaxPrefixLength
    /\ pc = "graph"
    /\ local = IdleLocal
    /\ runs = 0
    /\ last_call = NoCall

NextGraph == \E condition_to_remove \in Conditions :
                 remove_edges_with_condition(condition_to_remove)

SpecGraph == InitGraph /\ [][NextGraph]_vars

(***************************************************************************)
(*                              PROPERTIES                                 *)
(***************************************************************************)
RemovedEdge(e) ==
    /\ built_store[e].live
    /\ built_store[e].condition # NoCondition
    /\ built_store[e].condition[1] \in removed

\* C1: after any sequence of remove_edges_with_condition calls, the edges
\* built with a removed condition are exactly the ones tombstoned: no live
\* slot carries a removed condition, every other slot (a live edge with
\* another condition, a free edge, a tombstone) is as it was built, and the
\* table keeps its slots.
RemovalTombstonesExactlyMatchingEdges ==
    /\ DOMAIN edges_store = DOMAIN built_store
    /\ \A e \in DOMAIN edges_store :
          /\ edges_store[e].live /\ edges_store[e].condition # NoCondition
                => edges_store[e].condition[1] \notin removed
          /\ IF RemovedEdge(e) THEN edges_store[e] = NoEdge
                               ELSE edges_store[e] = built_store[e]

\* Condition 0 was removed: one edge was tombstoned while an edge with
\* another condition and a free edge are still live.
RemovalWitness ==
    /\ removed = {0}
    /\ \E e1, e2, e3 \in EdgeIds :
          /\ RemovedEdge(e1) /\ ~edges_store[e1].live
          /\ edges_store[e2].live /\ edges_store[e2].condition = Some(1)
          /\ edges_store[e3].live /\ edges_store[e3].condition = NoCondition

\* C2: after any sequence of removals, bit e is set in edges_of_node[n]
\* exactly when edges_store[e] is a live edge with source n, and the bits
\* cleared in edges_of_node[n] since the graph was built are exactly the
\* handles of the removed edges with source n.
OutgoingBitmapsMatchStore ==
    \A n \in Nodes :
       /\ \A e \in EdgeIds :
             e \in edges_of_node[n]
                <=> (edges_store[e].live /\ edges_store[e].source_node = n)
       /\ {e \in EdgeIds : built_store[e].live /\ built_store[e].source_node = n}
             \ edges_of_node[n]
          = {e \in EdgeIds : RemovedEdge(e) /\ built_store[e].source_node = n}

\* A removal cleared one bit of a node's bitmap and left another one set.
BitmapWitness ==
    /\ removed # {}
    /\ \E n \in Nodes : \E e1, e2 \in EdgeIds :
          /\ RemovedEdge(e1) /\ built_store[e1].source_node = n
          /\ e1 \notin edges_of_node[n]
          /\ e2 \in edges_of_node[n]
          /\ built_store[e1].dest_node # n

\* ---- the notions the prefix builder's properties are stated with ----
\* The byte offsets at which a character of the UTF-8 string w ends, decoding
\* from offset i.
RECURSIVE CharEndsFrom(_, _)
CharEndsFrom(w, i) ==
    IF i >= Len(w) THEN {}
    ELSE LET size == IF w[i + 1] \in LeadBytes THEN 2 ELSE 1
         IN {i + size} \cup CharEndsFrom(w, i + size)

CharEnds(w) == CharEndsFrom(w, 0)

\* w decodes as a sequence of whole characters.
Decodes(w) ==
    /\ \A i \in 1 .. Len(w) : w[i] \in ContinuationBytes <=> (i > 1 /\ w[i - 1] \in LeadBytes)
    /\ Len(w) > 0 => w[Len(w)] \notin LeadBytes

IsPrefixOf(p, w) == \E k \in 0 .. Len(w) : SubSeq(w, 1, k) = p

\* The prefixes of 1..L bytes that some word of W has at a character boundary.
BoundaryPrefixes(W, L) ==
    {SubSeq(w, 1, n) : <<w, n>> \in {x \in W \X (1 .. L) : x[2] \in CharEnds(x[1])}}

WordsStartingWith(W, p) == {w \in W : IsPrefixOf(p, w)}

\* floor(|W| * r), r in hundredths
Floor(W, r) == (Cardinality(W) * r.v) \div 100

\* C3: after a successful execute the stored prefix FST holds exactly the
\* prefixes of 1..L bytes, cut at a character boundary, that at least
\* floor(|W|*r) words of W start with.
PrefixFstMeetsThreshold ==
    pc = "done" =>
        words_prefixes_fst =
            {p \in BoundaryPrefixes(words_fst, max_prefix_length) :
                Cardinality(WordsStartingWith(words_fst, p)) >= Floor(words_fst, threshold)}

\* C8: with threshold 0 every prefix of 1..L bytes, cut at a character
\* boundary, of some word of W is in the stored prefix FST after execute.
ZeroThresholdInsertsEveryPrefix ==
    (pc = "done" /\ threshold = F64(0)) =>
        words_prefixes_fst = BoundaryPrefixes(words_fst, max_prefix_length)

\* C4: after a successful execute the keys of word_prefix_docids are the
\* prefixes of the stored prefix FST, and each holds the union of the docids
\* of the words that start with it, whatever the database held before.
PrefixDocidsExact ==
    pc = "done" =>
        /\ DOMAIN word_prefix_docids = words_prefixes_fst
        /\ \A p \in words_prefixes_fst :
              word_prefix_docids[p] =
                  UNION {word_docids[w] : w \in WordsStartingWith(words_fst, p)}

\* execute succeeded on a database that held stale entries, and a stored
\* prefix covers two words with different docids.
PrefixDocidsWitness ==
    /\ pc = "done"
    /\ runs = 1
    /\ before.word_prefix_docids # EmptyDb
    /\ \E p \in words_prefixes_fst : \E w1, w2 \in WordsStartingWith(words_fst, p) :
          word_docids[w1] # word_docids[w2]

\* C5 as stated: when execute fails, word_prefix_docids and the
\* words_prefixes_fst slot hold what they held when execute was called.
FailureLeavesStoresUntouched ==
    pc = "failed" =>
        /\ word_prefix_docids = before.word_prefix_docids
        /\ words_prefixes_fst = before.words_prefixes_fst

\* The database made of the first k entries of a sorted run.
FirstEntries(entries, k) ==
    [p \in {entries[i][1] : i \in 1 .. k} |->
        (CHOOSE e \in {entries[i] : i \in 1 .. k} : e[1] = p)[2]]

\* C5, amended: when execute fails, what the write transaction shows depends
\* on the step that failed.  A failing clear changes nothing.  After it,
\* word_prefix_docids is empty, but for a failure of the final write, where it
\* holds the first entries of the new content; words_prefixes_fst holds its
\* former content until line 141 has run and the new prefix FST from then on.
\* Nothing is restored.
FailureKeepsWritesMadeSoFar ==
    pc = "failed" =>
        /\ local.stage = "clear" =>
              /\ word_prefix_docids = before.word_prefix_docids
              /\ words_prefixes_fst = before.words_prefixes_fst
        /\ local.stage \in {"words", "scan", "docids", "put"} =>
              /\ word_prefix_docids = EmptyDb
              /\ words_prefixes_fst = before.words_prefixes_fst
        /\ local.stage = "write" =>
              /\ word_prefix_docids = EmptyDb
              /\ words_prefixes_fst = local.prefix_fst
        /\ local.stage = "lmdb" =>
              /\ \E k \in 0 .. Len(local.docids_reader) :
                    word_prefix_docids = FirstEntries(local.docids_reader, k)
              /\ words_prefixes_fst = local.prefix_fst

\* A word that is not UTF-8 made execute fail after the clear: the stale
\* entries the database held are gone.
FailureWitness ==
    /\ pc = "failed"
    /\ local.error = "Encoding"
    /\ before.word_prefix_docids # EmptyDb
    /\ word_prefix_docids = EmptyDb
    /\ words_prefixes_fst = before.words_prefixes_fst

\* C6: an execute that follows a successful execute with the same words,
\* docids and settings does not fail on the content the first one wrote (only
\* on an I/O error), and when it succeeds the two stores hold what they held
\* after the first.
RerunIsIdentical ==
    runs >= 2 =>
        /\ pc = "failed" => local.error = "Io"
        /\ pc = "done" =>
              /\ word_prefix_docids = before.word_prefix_docids
              /\ words_prefixes_fst = before.words_prefixes_fst

\* The second execute succeeded, starting from the non-empty stores the
\* first one wrote.
RerunWitness ==
    /\ runs = 2
    /\ pc = "done"
    /\ before.word_prefix_docids # EmptyDb
    /\ Cardinality(words_prefixes_fst) >= 2

\* The value in [0, 1] nearest to an f64 that is not NaN, in hundredths.
NearestThreshold(v) == IF v < 0 THEN 0 ELSE IF v > 100 THEN 100 ELSE v
\* The value in [1, 25] nearest to a usize.
NearestLength(v) == IF v < 1 THEN 1 ELSE IF v > 25 THEN 25 ELSE v

Executing == pc \in {"scan", "merge", "docids", "put", "write", "lmdb"}

\* C7: a new builder has threshold 0.01 and max_prefix_length 4; after any
\* sequence of setter calls the threshold is in [0, 1] and max_prefix_length
\* in [1, 25], each the value of [its range] nearest to the last argument;
\* and execute computes 0 <= min_number_of_words <= |W| and makes between 1
\* and 25 passes.
SettingsAreClamped ==
    /\ ~threshold.nan /\ 0 <= threshold.v /\ threshold.v <= 100
    /\ 1 <= max_prefix_length /\ max_prefix_length <= 25
    /\ last_call.threshold = <<>> => threshold = F64(1)
    /\ last_call.max_prefix_length = <<>> => max_prefix_length = 4
    /\ \A value \in SeqToSet(last_call.threshold) :
          ~value.nan => threshold = F64(NearestThreshold(value.v))
    /\ \A value \in SeqToSet(last_call.max_prefix_length) :
          max_prefix_length = NearestLength(value)
    /\ Executing =>
          /\ 0 <= local.min_number_of_words
          /\ local.min_number_of_words <= Cardinality(words_fst)
          /\ local.n \in 1 .. 25
          /\ pc = "scan" => Len(local.prefix_fsts) = local.n - 1
          /\ pc # "scan" => Len(local.prefix_fsts) \in 1 .. 25
          /\ pc # "scan" => Len(local.prefix_fsts) = max_prefix_length

\* Both setters were last called with an argument above their range, and
\* execute has made its 25 passes.
SettingsWitness ==
    /\ last_call.threshold = <<F64(250)>>
    /\ last_call.max_prefix_length = <<1000>>
    /\ pc = "merge"
    /\ Len(local.prefix_fsts) = 25
    /\ local.min_number_of_words = Cardinality(words_fst)

\* C9: in the pass for length n, a word counts iff it has at least n bytes
\* and offset n is a character boundary, and then for its first n bytes: it
\* continues the current run when that is its prefix and starts a run of one
\* otherwise.  Any other word is skipped without an error, and leaves the
\* current prefix, its count and the builder as they are.
ScanCountsWordsCutAtBoundary ==
    [][(pc = "scan" /\ local.pos <= Cardinality(words_fst)
            /\ Decodes(Stream(words_fst)[local.pos]))
        => LET w == Stream(words_fst)[local.pos]
               n == local.n
           IN IF Len(w) >= n /\ n \in CharEnds(w)
              THEN /\ local'.current_prefix = SubSeq(w, 1, n)
                   /\ local'.current_prefix_count =
                         IF /\ local.current_prefix_count > 0
                            /\ local.current_prefix = SubSeq(w, 1, n)
                         THEN local.current_prefix_count + 1
                         ELSE 1
                   /\ local'.pos = local.pos + 1
              ELSE /\ pc' = "scan"
                   /\ local' = [local EXCEPT !.pos = @ + 1]]_vars

\* In a pass for length 2, a word cut inside a character by offset 2 has just
\* been skipped while a run was being counted, and a shorter word before it.
ScanWitness ==
    /\ pc = "scan"
    /\ local.n = 2
    /\ local.pos = 4
    /\ local.current_prefix_count = 1
    /\ local.current_prefix = <<1, 1>>
    /\ LET words == Stream(words_fst)
       IN /\ Len(words[1]) < 2
          /\ Len(words[3]) > 2
          /\ 2 \notin CharEnds(words[3])

StrictlyIncreasing(keys) ==
    \A i \in 1 .. (Len(keys) - 1) : BytesLess(keys[i], keys[i + 1])

\* C10: within one pass the keys handed to the set builder are strictly
\* increasing, so none is handed twice and the builder never refuses one; the
\* prefix of the current run has been inserted only if the run's count has
\* reached min_number_of_words, and has been when that is at least 1.
InsertionsStrictlyIncreasing ==
    /\ StrictlyIncreasing(local.builder)
    /\ local.error # "Fst"
    /\ (pc = "scan" /\ local.current_prefix_count >= 1) =>
          /\ local.current_prefix \in SeqToSet(local.builder)
                => local.current_prefix_count >= local.min_number_of_words
          /\ (local.min_number_of_words >= 1
                /\ local.current_prefix_count >= local.min_number_of_words)
                => local.builder[Len(local.builder)] = local.current_prefix

\* Two prefixes were inserted in one pass, and the run of the second went on
\* past min_number_of_words.
InsertionsWitness ==
    /\ pc = "scan"
    /\ Len(local.builder) >= 2
    /\ local.min_number_of_words >= 1
    /\ local.current_prefix_count > local.min_number_of_words

====
